---- MODULE Spec2Model ----
(***************************************************************************)
(* GroupService (server/src/group/group.service.ts): the transactional     *)
(* create / delete protocol over the four collections Group, GroupMember,  *)
(* GroupInvite and GroupApplication.                                       *)
(* The read queries (findAll, countGroups, findGroupsByAppidAndUid,        *)
(* findOneWithRole) are their aggregation pipelines run on a store.        *)
(*                                                                         *)
(* Every action is the code between two awaits: the awaited storage call   *)
(* together with the synchronous statements that lead to it.  A storage    *)
(* call either succeeds or throws; a call that throws leaves the store     *)
(* untouched.  The MongoDB driver's session is modelled by its transaction *)
(* state machine (startTransaction / commitTransaction / abortTransaction  *)
(* / endSession / withTransaction) and the server by snapshot transactions *)
(* whose writes are buffered until commit and that raise a write conflict  *)
(* (labelled TransientTransactionError) when two transactions write the    *)
(* same document.                                                          *)
(***************************************************************************)
EXTENDS Naturals, FiniteSets, Sequences, TLC

(* ------------------------------ bounds -------------------------------- *)

\* number of create/delete calls that may run concurrently
MaxCalls == 2

\* injected storage failures over a whole behaviour
MaxFaults == 2

\* invite codes the initial group may hold
MaxInvites == 1

\* group ids of the stores the read queries are run on
MaxQueryGroups == 2

(* ------------------------------ values -------------------------------- *)

Calls == 1..MaxCalls

Uids == {"u1", "u2"}

\* the optional appid argument of create: undefined or an application id
Undefined == "undefined"

Null == "null"

Appids == {"app1"}

\* GroupRole.Owner and one other role
Owner == "owner"

Colls == {"Group", "GroupMember", "GroupInvite", "GroupApplication"}

EmptyDB == [k \in Colls |-> {}]

\* A value written with an undefined field is stored with that field null.
SerializeAppid(appid) == IF appid = Undefined THEN Null ELSE appid

GroupDoc(id, name, createdBy, appid) ==
  [_id |-> id, name |-> name, createdBy |-> createdBy,
   appid |-> SerializeAppid(appid)]

MemberRow(groupId, uid, role) == [groupId |-> groupId, uid |-> uid, role |-> role]

InviteRow(groupId, code) == [groupId |-> groupId, code |-> code]

ApplicationRow(groupId, appid) ==
  [groupId |-> groupId, appid |-> SerializeAppid(appid)]

\* the key a row of a collection carries for its group
KeyOf(coll, row) == IF coll = "Group" THEN row._id ELSE row.groupId

RowsOf(D, coll, groupId) == {r \in D[coll] : KeyOf(coll, r) = groupId}

NoRows(D, groupId) == \A k \in Colls : RowsOf(D, k, groupId) = {}

(* ------------------------- errors and sessions ------------------------ *)

NoErr == [at |-> "", label |-> ""]

Error(at, label) == [at |-> at, label |-> label]

NO_TRANSACTION == "NO_TRANSACTION"

STARTING_TRANSACTION == "STARTING_TRANSACTION"

TRANSACTION_IN_PROGRESS == "TRANSACTION_IN_PROGRESS"

TRANSACTION_COMMITTED == "TRANSACTION_COMMITTED"

TRANSACTION_ABORTED == "TRANSACTION_ABORTED"

\* ClientSession.inTransaction()
InTransaction(s) == s.state \in {STARTING_TRANSACTION, TRANSACTION_IN_PROGRESS}

\* SystemDatabase.client.startSession()
StartSession ==
  [exists |-> TRUE, ended |-> FALSE, state |-> NO_TRANSACTION,
   snap |-> EmptyDB, ins |-> EmptyDB, del |-> EmptyDB]

NoSession ==
  [exists |-> FALSE, ended |-> FALSE, state |-> NO_TRANSACTION,
   snap |-> EmptyDB, ins |-> EmptyDB, del |-> EmptyDB]

\* session.startTransaction(): throws when a transaction is in progress
CanStartTransaction(s) == ~InTransaction(s)

StartTransaction(s) ==
  [s EXCEPT !.state = STARTING_TRANSACTION,
            !.snap = EmptyDB, !.ins = EmptyDB, !.del = EmptyDB]

\* The first operation of a transaction takes the server's snapshot.
Touch(s, D) ==
  IF s.state = STARTING_TRANSACTION
  THEN [s EXCEPT !.state = TRANSACTION_IN_PROGRESS, !.snap = D]
  ELSE s

\* what a read on the session sees: its transaction's snapshot with the
\* transaction's own writes, or the committed store outside a transaction
View(s, D) ==
  IF InTransaction(s)
  THEN [k \in Colls |-> (s.snap[k] \ s.del[k]) \cup s.ins[k]]
  ELSE D

Cleared(s, state) ==
  [s EXCEPT !.state = state, !.snap = EmptyDB, !.ins = EmptyDB, !.del = EmptyDB]

\* the store after the server applies the transaction's writes
Applied(D, s) == [k \in Colls |-> (D[k] \ s.del[k]) \cup s.ins[k]]

\* session.commitTransaction(): the driver enters TRANSACTION_COMMITTED
\* whatever the answer; applied tells whether the server has applied the
\* transaction's writes
CommitTransaction(D, s, applied) ==
  IF applied
  THEN [db |-> Applied(D, s), s |-> Cleared(s, TRANSACTION_COMMITTED)]
  ELSE [db |-> D, s |-> [s EXCEPT !.state = TRANSACTION_COMMITTED]]

\* Whether the server applied the commit, by the answer the driver got: an
\* error labelled UnknownTransactionCommitResult leaves it open.
CommitApplied(f) ==
  IF f = "ok" THEN {TRUE} ELSE IF f = "Unknown" THEN BOOLEAN ELSE {FALSE}

\* a commit is re-sent for a transaction whose writes the server has applied
AlreadyCommitted(s) ==
  s.state = TRANSACTION_COMMITTED /\ s.ins = EmptyDB /\ s.del = EmptyDB

\* The answers to a commit: the server acknowledges a transaction it has
\* committed already, or the answer is lost again.
CommitAnswers(s) ==
  IF AlreadyCommitted(s) THEN {"ok", "Unknown"}
  ELSE {"ok", "Fatal", "Transient", "Unknown"}

\* session.abortTransaction(): rejects by the driver's state; the server's
\* answer to the abort command is ignored
AbortError(s) ==
  CASE s.state = NO_TRANSACTION -> Error("abortTransaction", "NoTransactionStarted")
    [] s.state = TRANSACTION_ABORTED -> Error("abortTransaction", "AbortTwice")
    [] s.state = TRANSACTION_COMMITTED -> Error("abortTransaction", "AbortAfterCommit")
    [] OTHER -> NoErr

AbortTransaction(s) ==
  IF AbortError(s) = NoErr THEN Cleared(s, TRANSACTION_ABORTED) ELSE s

\* session.endSession(): aborts a transaction still in progress
EndSession(s) ==
  [(IF InTransaction(s) THEN Cleared(s, TRANSACTION_ABORTED)
    ELSE Cleared(s, s.state)) EXCEPT !.ended = TRUE]

(* --------------------------- storage operations ----------------------- *)

\* collection.insertOne(row, { session })
InsertRow(D, s, coll, row) ==
  IF InTransaction(s)
  THEN [db |-> D, s |-> [s EXCEPT !.ins[coll] = @ \cup {row}]]
  ELSE [db |-> [D EXCEPT ![coll] = @ \cup {row}], s |-> s]

\* collection.deleteOne / deleteMany by group id, { session }
DeleteRows(D, s, coll, groupId) ==
  LET rows == RowsOf(View(s, D), coll, groupId) IN
  IF InTransaction(s)
  THEN [db |-> D,
        s |-> [s EXCEPT !.del[coll] = @ \cup (rows \cap s.snap[coll]),
                        !.ins[coll] = @ \ rows]]
  ELSE [db |-> [D EXCEPT ![coll] = @ \ rows], s |-> s]

\* collection.findOne({ _id: groupId }, { session }): a set of at most one
FindOneIn(D, s, groupId) == RowsOf(View(s, D), "Group", groupId)

(* ------------------- GroupService and its collaborators --------------- *)

\* findOne as it would read if the session were not passed on
findOneNoSession(D, s, groupId) == RowsOf(D, "Group", groupId)

\* findOne as it would read with the _id filter left out: the first Group
findOneAnyGroup(D, s, groupId) ==
  LET g == View(s, D)["Group"] IN
  IF g = {} THEN {} ELSE {CHOOSE x \in g : \A y \in g : x._id <= y._id}

\* GroupService.findOne(groupId, session)
findOne(D, s, groupId) == FindOneIn(D, s, groupId)

\* the insert as it would run if the session were not passed on
InsertGroupNoSession(D, s, id, name, createdBy, appid) ==
  [db |-> [D EXCEPT !["Group"] = @ \cup {GroupDoc(id, name, createdBy, appid)}],
   s |-> s]

\* Group.insertOne({ name, appid, createdBy, ... }, { session }) of create
InsertGroup(D, s, id, name, createdBy, appid) ==
  InsertRow(D, s, "Group", GroupDoc(id, name, createdBy, appid))

\* memberService.addOne(groupId, uid, role, session)
addOne(D, s, groupId, uid, role) ==
  InsertRow(D, s, "GroupMember", MemberRow(groupId, uid, role))

\* groupApplicationService.append(groupId, appid, session)
append(D, s, groupId, appid) ==
  InsertRow(D, s, "GroupApplication", ApplicationRow(groupId, appid))

\* the deletion left out
DeleteGroupNoop(D, s, groupId) == [db |-> D, s |-> s]

\* Group.deleteOne({ _id: groupId }, { session }) of delete
DeleteGroup(D, s, groupId) == DeleteRows(D, s, "Group", groupId)

\* memberService.removeAll(groupId, session)
removeAllMembers(D, s, groupId) == DeleteRows(D, s, "GroupMember", groupId)

\* inviteService.deleteManyInviteCode(groupId, session)
deleteManyInviteCode(D, s, groupId) == DeleteRows(D, s, "GroupInvite", groupId)

\* groupApplicationService.removeAll(groupId, session)
removeAllApplications(D, s, groupId) ==
  DeleteRows(D, s, "GroupApplication", groupId)

\* a field a dto does not carry
NotGiven == "notGiven"

\* one key of $set: { ...dto }: a key the dto carries replaces the
\* document's field, and a value given as undefined is stored as null
SetField(old, given) ==
  IF given = NotGiven THEN old
  ELSE IF given = Undefined THEN Null ELSE given

\* $set: { ...dto, updatedAt }: every key of the dto is copied
SetFields(doc, dto) ==
  [doc EXCEPT !.name = SetField(@, dto.name),
              !.createdBy = SetField(@, dto.createdBy),
              !.appid = SetField(@, dto.appid)]

\* GroupService.update(groupId, dto): findOneAndUpdate({ _id: groupId },
\* { $set }, { returnDocument: "after" }) with no session; value is the
\* document after the update, or null (the empty set) when none matched
update(D, groupId, dto) ==
  LET old == RowsOf(D, "Group", groupId)
      new == {SetFields(g, dto) : g \in old}
  IN [db |-> [D EXCEPT !["Group"] = (@ \ old) \cup new], value |-> new]

\* needEndSession set whoever started the session
NeedEndSessionAlways(borrowed) == TRUE

\* delete's needEndSession: set only when the call starts the session itself
NeedEndSession(borrowed) == ~borrowed

\* a retry loop that re-executes the callback after any error
RetryBodyAlways(err, timedOut) == ~timedOut

\* withTransaction re-executes the callback after an error labelled
\* TransientTransactionError unless its time limit (120 s) has expired
RetryBody(err, timedOut) == err.label = "Transient" /\ ~timedOut

\* withTransaction re-sends the commit after an error labelled
\* UnknownTransactionCommitResult unless its time limit has expired
RetryCommit(err, timedOut) == err.label = "Unknown" /\ ~timedOut

(* ----------------------------- read queries --------------------------- *)

\* The aggregation pipelines, stage by stage, over a committed store D.  A
\* result is the set of the documents the cursor yields; createdAt and
\* updatedAt are carried by no document of the model and are left out of the
\* projections.

\* a field a stored document does not have
Missing == "missing"

\* a filter that lets every appid through
MatchesAnyAppid(v) == TRUE

\* the filter { appid: null }: the field is null or is not there
MatchesNull(v) == v \in {Null, Missing}

\* the filter { appid: { $exists: false } }: the field is not there
ExistsFalse(v) == v = Missing

\* $lookup from Group, localField groupId, foreignField _id
LookupGroup(D, groupId) == {g \in D["Group"] : g._id = groupId}

\* $unwind of the looked-up array: one document per element, none for an
\* empty array
Unwind(joined) ==
  UNION {{[doc |-> x.doc, as |-> e] : e \in x.as} : x \in joined}

\* the members lookup without its join on groupId
LookupMembersOfAll(D, groupId) ==
  {[role |-> m.role, uid |-> m.uid] : m \in D["GroupMember"]}

\* $lookup from GroupMember on groupId, projected to { role, uid }
LookupMembers(D, groupId) ==
  {[role |-> m.role, uid |-> m.uid] :
     m \in {x \in D["GroupMember"] : x.groupId = groupId}}

\* cursor.next(), findOne: the first document the server yields, or null
\* (the empty set).  No stage sorts, so the first may be any of the
\* documents: the operator gives every result the call can have.
CursorNext(rows) == IF rows = {} THEN {{}} ELSE {{r} : r \in rows}

\* GroupService.findGroupByAppid(appid): Group.findOne({ appid }); the
\* results the call can have
findGroupByAppid(D, appid) ==
  CursorNext({g \in D["Group"] : g.appid = appid})

\* GroupService.findAll(uid), the pipeline of lines 30-65
findAll(D, uid) ==
  LET matched == {m \in D["GroupMember"] : m.uid = uid}
      joined == {[doc |-> m,
                  as |-> {g \in LookupGroup(D, m.groupId) : MatchesNull(g.appid)}] :
                   m \in matched}
      groups == Unwind(joined)
      withMembers == {[group |-> x.as,
                       members |-> LookupMembers(D, x.doc.groupId)] : x \in groups}
  IN {[_id |-> x.group._id, name |-> x.group.name, members |-> x.members] :
        x \in withMembers}

\* GroupService.countGroups(uid)
countGroups(D, uid) ==
  Cardinality({g \in D["Group"] : g.createdBy = uid /\ ExistsFalse(g.appid)})

\* the member lookup without its condition on uid
LookupMemberAnyUid(D, groupId, uid) ==
  {m \in D["GroupMember"] : m.groupId = groupId}

\* $lookup from GroupMember with $expr: groupId = $$groupId and uid = uid
LookupMember(D, groupId, uid) ==
  {m \in D["GroupMember"] : m.groupId = groupId /\ m.uid = uid}

\* GroupService.findGroupsByAppidAndUid(appid, uid), lines 84-129
findGroupsByAppidAndUid(D, appid, uid) ==
  LET matched == {a \in D["GroupApplication"] : a.appid = appid}
      groups == Unwind({[doc |-> a, as |-> LookupGroup(D, a.groupId)] :
                          a \in matched})
      members == Unwind({[doc |-> x.as,
                          as |-> LookupMember(D, x.doc.groupId, uid)] :
                           x \in groups})
  IN {[_id |-> x.doc._id, name |-> x.doc.name, role |-> x.as.role] :
        x \in members}

\* the $match of findOneWithRole without its condition on groupId
MatchMemberAnyGroup(D, groupId, uid) ==
  {m \in D["GroupMember"] : m.uid = uid}

\* $match: { groupId, uid } on GroupMember
MatchMember(D, groupId, uid) ==
  {m \in D["GroupMember"] : m.groupId = groupId /\ m.uid = uid}

\* GroupService.findOneWithRole(groupId, uid), lines 160-187: the results
\* the call can have
findOneWithRole(D, groupId, uid) ==
  LET matched == MatchMember(D, groupId, uid)
      groups == Unwind({[doc |-> m, as |-> LookupGroup(D, m.groupId)] :
                          m \in matched})
  IN CursorNext({[_id |-> x.as._id, name |-> x.as.name, role |-> x.doc.role] :
                   x \in groups})

(* ------------------------------- state -------------------------------- *)

VARIABLES
  db,      \* the committed store: collection -> set of rows
  sess,    \* call -> the ClientSession the call works on
  call,    \* call -> its arguments, locals and position
  hist,    \* call -> what the call has done so far (observation only)
  nextId,  \* the next ObjectId the driver generates
  faults,  \* storage failures injected so far
  query    \* the last read query: its arguments and what the caller got

vars == <<db, sess, call, hist, nextId, faults, query>>

WriteSteps ==
  {"insertOne", "addOne", "append",
   "deleteOne", "removeAllMembers", "deleteManyInviteCode", "removeAllApplications"}

NoOut == [kind |-> "none", val |-> {}, err |-> NoErr]

Return(group) == [kind |-> "return", val |-> group, err |-> NoErr]

Raise(err) == [kind |-> "raise", val |-> {}, err |-> err]

IdleCall ==
  [op |-> "none", pc |-> "idle", name |-> "", createdBy |-> "", appid |-> "",
   groupId |-> 0, borrowed |-> FALSE, needEndSession |-> FALSE,
   group |-> {}, err |-> NoErr,
   insertedId |-> 0, attempt |-> 0, out |-> NoOut]

\* no read query made yet; primary is the error the aggregation threw
NoQuery ==
  [op |-> "none", uid |-> "", appid |-> "", groupId |-> 0,
   primary |-> NoErr, out |-> NoOut]

NoHist ==
  [dbAtCall |-> EmptyDB, interf |-> FALSE, callerTxn |-> FALSE,
   curId |-> 0, failedIds |-> {}, primary |-> NoErr, transients |-> 0,
   fatals |-> 0,
   runs |-> [w \in WriteSteps |-> 0]]

\* a database left by an earlier create and by the membership and invite
\* services: group 1 with its owner, one further member and n invite codes
InitDB(n) ==
  [Group |-> {GroupDoc(1, "team", "u1", Undefined)},
   GroupMember |-> {MemberRow(1, "u1", Owner), MemberRow(1, "u2", "developer")},
   GroupInvite |-> {InviteRow(1, i) : i \in 1..n},
   GroupApplication |-> {ApplicationRow(1, Undefined)}]

Init ==
  /\ db \in {InitDB(n) : n \in 0..MaxInvites}
  /\ sess = [c \in Calls |-> NoSession]
  /\ call = [c \in Calls |-> IdleCall]
  /\ hist = [c \in Calls |-> NoHist]
  /\ nextId = 2
  /\ faults = 0
  /\ query = NoQuery

\* the outcomes a storage call may have: "ok" or a thrown error's label
Outcomes == {"ok", "Fatal", "Transient"}

CommitOutcomes == Outcomes \cup {"Unknown"}

\* calls other than c that have started and not settled
InFlight(c) == {d \in Calls \ {c} : call[d].pc \notin {"idle", "settled"}}

FaultOK(c, f) == f = "ok" \/ faults < MaxFaults

Faults(f) == IF f = "ok" THEN faults ELSE faults + 1

\* a commit or an update by call d that changed the store is seen by the
\* other calls
Interfere(h, d, D) ==
  [c \in Calls |->
     IF c # d /\ call[c].op \in {"create", "delete"} /\ D # db
     THEN [h[c] EXCEPT !.interf = TRUE] ELSE h[c]]

Ran(h, step) == [h EXCEPT !.runs[step] = @ + 1]

Failed(h, err) ==
  [h EXCEPT !.primary = err,
            !.transients = IF err.label = "Transient" THEN @ + 1 ELSE @,
            !.fatals = IF err.label \notin {"Transient", "Unknown"} THEN @ + 1 ELSE @]

Abandoned(h) == [h EXCEPT !.failedIds = @ \cup {h.curId}]

\* Calls are numbered in the order in which they are made.
NextCall(c) == call[c].op = "none" /\ \A d \in 1..(c - 1) : call[d].op # "none"

\* the arguments create is called with
CreateInputs == {<<"team", "u1", Undefined>>, <<"crm", "u2", "app1">>}

(* ------------------------------- create ------------------------------- *)

\* create(name, createdBy, appid): startSession, then withTransaction
CallCreate(c, name, createdBy, appid) ==
  /\ NextCall(c)
  /\ sess' = [sess EXCEPT ![c] = StartSession]
  /\ call' = [call EXCEPT ![c] =
                [IdleCall EXCEPT !.op = "create", !.pc = "insertOne",
                                 !.name = name, !.createdBy = createdBy,
                                 !.appid = appid, !.attempt = 1]]
  /\ hist' = [hist EXCEPT ![c] = [NoHist EXCEPT !.dbAtCall = db]]
  /\ UNCHANGED <<db, nextId, faults>>
  /\ UNCHANGED query

\* an error thrown inside the callback: withTransaction aborts next
CreateThrow(c, s, h, step, f) ==
  LET err == Error(step, f) IN
  /\ sess' = [sess EXCEPT ![c] = s]
  /\ call' = [call EXCEPT ![c].err = err, ![c].pc = "wtAbort"]
  /\ hist' = [hist EXCEPT ![c] = Failed(h, err)]
  /\ db' = db

\* withTransaction starts a transaction and runs the callback: insertOne
CreateInsertOne(c, f) ==
  /\ call[c].op = "create" /\ call[c].pc = "insertOne" /\ FaultOK(c, f)
  /\ LET s == Touch(StartTransaction(sess[c]), db)
         h == [Ran(hist[c], "insertOne") EXCEPT !.curId = nextId]
         r == InsertGroup(db, s, nextId, call[c].name, call[c].createdBy,
                          call[c].appid)
     IN IF f = "ok"
        THEN /\ db' = r.db
             /\ sess' = [sess EXCEPT ![c] = r.s]
             /\ call' = [call EXCEPT ![c].insertedId = nextId, ![c].pc = "addOne"]
             /\ hist' = [hist EXCEPT ![c] = h]
        ELSE CreateThrow(c, s, h, "insertOne", f)
  /\ nextId' = nextId + 1
  /\ faults' = Faults(f)
  /\ UNCHANGED query

CreateAddOne(c, f) ==
  /\ call[c].op = "create" /\ call[c].pc = "addOne" /\ FaultOK(c, f)
  /\ LET h == Ran(hist[c], "addOne")
         r == addOne(db, sess[c], call[c].insertedId, call[c].createdBy, Owner)
     IN IF f = "ok"
        THEN /\ db' = r.db
             /\ sess' = [sess EXCEPT ![c] = r.s]
             /\ call' = [call EXCEPT ![c].pc = "append"]
             /\ hist' = [hist EXCEPT ![c] = h]
        ELSE CreateThrow(c, sess[c], h, "addOne", f)
  /\ faults' = Faults(f)
  /\ UNCHANGED nextId
  /\ UNCHANGED query

CreateAppend(c, f) ==
  /\ call[c].op = "create" /\ call[c].pc = "append" /\ FaultOK(c, f)
  /\ LET h == Ran(hist[c], "append")
         r == append(db, sess[c], call[c].insertedId, call[c].appid)
     IN IF f = "ok"
        THEN /\ db' = r.db
             /\ sess' = [sess EXCEPT ![c] = r.s]
             /\ call' = [call EXCEPT ![c].pc = "findOne"]
             /\ hist' = [hist EXCEPT ![c] = h]
        ELSE CreateThrow(c, sess[c], h, "append", f)
  /\ faults' = Faults(f)
  /\ UNCHANGED nextId
  /\ UNCHANGED query

\* group = await this.findOne(res.insertedId, session)
CreateFindOne(c, f) ==
  /\ call[c].op = "create" /\ call[c].pc = "findOne" /\ FaultOK(c, f)
  /\ IF f = "ok"
     THEN /\ call' = [call EXCEPT
                        ![c].group = findOne(db, sess[c], call[c].insertedId),
                        ![c].pc = "commit"]
          /\ UNCHANGED <<db, sess, hist>>
     ELSE CreateThrow(c, sess[c], hist[c], "findOne", f)
  /\ faults' = Faults(f)
  /\ UNCHANGED nextId
  /\ UNCHANGED query

\* the callback resolved: withTransaction commits; on a commit error it
\* re-sends the commit, re-executes the callback, or throws to create's
\* catch, which logs and rethrows
CreateCommit(c, f, timedOut) ==
  /\ call[c].op = "create" /\ call[c].pc = "commit" /\ FaultOK(c, f)
  /\ f \in CommitAnswers(sess[c])
  /\ \E applied \in CommitApplied(f) :
       LET r == CommitTransaction(db, sess[c], applied)
           err == Error("commitTransaction", f)
       IN /\ db' = r.db
          /\ sess' = [sess EXCEPT ![c] = r.s]
          /\ IF f = "ok"
             THEN /\ call' = [call EXCEPT ![c].out = Return(call[c].group),
                                          ![c].pc = "endSession"]
                  /\ hist' = Interfere(hist, c, r.db)
             ELSE IF RetryCommit(err, timedOut)
             THEN /\ call' = [call EXCEPT ![c].attempt = @ + 1, ![c].err = err]
                  /\ hist' = Interfere([hist EXCEPT ![c] = Failed(@, err)],
                                       c, r.db)
             ELSE IF RetryBody(err, timedOut)
             THEN /\ call' = [call EXCEPT ![c].attempt = @ + 1, ![c].err = err,
                                          ![c].pc = "insertOne"]
                  /\ hist' = [hist EXCEPT ![c] = Abandoned(Failed(@, err))]
             ELSE /\ call' = [call EXCEPT ![c].err = err, ![c].out = Raise(err),
                                          ![c].pc = "endSession"]
                  /\ hist' = Interfere(
                       [hist EXCEPT ![c] = Abandoned(Failed(@, err))], c, r.db)
  /\ faults' = Faults(f)
  /\ UNCHANGED nextId
  /\ UNCHANGED query

\* the callback rejected: withTransaction aborts, then re-executes the
\* callback or throws the callback's error to create's catch
CreateAbort(c, timedOut) ==
  /\ call[c].op = "create" /\ call[c].pc = "wtAbort"
  /\ sess' = [sess EXCEPT ![c] =
                IF InTransaction(@) THEN AbortTransaction(@) ELSE @]
  /\ IF RetryBody(call[c].err, timedOut)
     THEN call' = [call EXCEPT ![c].attempt = @ + 1, ![c].pc = "insertOne"]
     ELSE call' = [call EXCEPT ![c].out = Raise(call[c].err),
                               ![c].pc = "endSession"]
  /\ hist' = [hist EXCEPT ![c] = Abandoned(@)]
  /\ UNCHANGED <<db, nextId, faults>>
  /\ UNCHANGED query

\* finally { await session.endSession() }
CreateEndSession(c) ==
  /\ call[c].op = "create" /\ call[c].pc = "endSession"
  /\ sess' = [sess EXCEPT ![c] = EndSession(@)]
  /\ call' = [call EXCEPT ![c].pc = "done"]
  /\ UNCHANGED <<db, hist, nextId, faults>>
  /\ UNCHANGED query

(* ------------------------------- delete ------------------------------- *)

\* how delete is called: without a session, with a caller's session that has
\* no transaction, or with a caller's session whose transaction is in progress
SessionModes == {"own", "borrowed", "borrowedInTxn"}

\* the caller's session as delete receives it; a caller's transaction in
\* progress already holds a write of the caller (an invite code, code 0)
CallerSession(mode, groupId, D) ==
  IF mode = "borrowedInTxn"
  THEN InsertRow(D, Touch(StartTransaction(StartSession), D),
                 "GroupInvite", InviteRow(groupId, 0)).s
  ELSE StartSession

\* delete(groupId, session?): lines 234-238
CallDelete(c, groupId, mode) ==
  /\ NextCall(c)
  /\ sess' = [sess EXCEPT ![c] = CallerSession(mode, groupId, db)]
  /\ call' = [call EXCEPT ![c] =
                [IdleCall EXCEPT !.op = "delete", !.pc = "findOne",
                                 !.groupId = groupId,
                                 !.borrowed = (mode # "own"),
                                 !.needEndSession = NeedEndSession(mode # "own")]]
  /\ hist' = [hist EXCEPT ![c] =
                [NoHist EXCEPT !.dbAtCall = db,
                               !.callerTxn = (mode = "borrowedInTxn")]]
  /\ UNCHANGED <<db, nextId, faults>>
  /\ UNCHANGED query

\* const group = await this.findOne(groupId, session), outside the try:
\* an error leaves delete at once, past catch and finally
DeletePreRead(c, f) ==
  /\ call[c].op = "delete" /\ call[c].pc = "findOne" /\ FaultOK(c, f)
  /\ IF f = "ok"
     THEN /\ call' = [call EXCEPT
                        ![c].group = findOne(db, sess[c], call[c].groupId),
                        ![c].pc = "deleteOne"]
          /\ hist' = hist
     ELSE /\ call' = [call EXCEPT ![c].out = Raise(Error("findOne", f)),
                                  ![c].pc = "done"]
          /\ hist' = [hist EXCEPT ![c] = Failed(@, Error("findOne", f))]
  /\ faults' = Faults(f)
  /\ UNCHANGED <<db, sess, nextId>>
  /\ UNCHANGED query

\* The server rejects a write to a document that another open transaction
\* has written or that changed after this transaction's snapshot.
WriteConflict(c, s, coll, groupId) ==
  /\ InTransaction(s)
  /\ \E r \in RowsOf(View(s, db), coll, groupId) \cap s.snap[coll] :
       \/ r \notin db[coll]
       \/ \E d \in Calls \ {c} : InTransaction(sess[d]) /\ r \in sess[d].del[coll]

\* an error thrown inside delete's try: the catch logs and aborts next
DeleteThrow(c, s, h, err) ==
  /\ sess' = [sess EXCEPT ![c] = s]
  /\ call' = [call EXCEPT ![c].err = err, ![c].pc = "abortTransaction"]
  /\ hist' = [hist EXCEPT ![c] = Failed(h, err)]
  /\ db' = db

\* one awaited deletion of delete's try block
DeleteWrite(c, f, step, coll, next, s, r) ==
  /\ FaultOK(c, f)
  /\ LET h == Ran(hist[c], step) IN
     IF f # "ok"
     THEN DeleteThrow(c, s, h, Error(step, f))
     ELSE IF WriteConflict(c, s, coll, call[c].groupId)
     THEN DeleteThrow(c, s, h, Error(step, "Transient"))
     ELSE /\ db' = r.db
          /\ sess' = [sess EXCEPT ![c] = r.s]
          /\ call' = [call EXCEPT ![c].pc = next]
          /\ hist' = [hist EXCEPT ![c] = h]
  /\ faults' = Faults(f)
  /\ UNCHANGED nextId

\* session.startTransaction(), then Group.deleteOne
DeleteGroupDoc(c, f) ==
  /\ call[c].op = "delete" /\ call[c].pc = "deleteOne"
  /\ IF CanStartTransaction(sess[c])
     THEN LET s == Touch(StartTransaction(sess[c]), db) IN
          DeleteWrite(c, f, "deleteOne", "Group", "removeAllMembers", s,
                      DeleteGroup(db, s, call[c].groupId))
     ELSE /\ f = "ok"
          /\ DeleteThrow(c, sess[c], hist[c],
                         Error("startTransaction", "TransactionInProgress"))
          /\ UNCHANGED <<nextId, faults>>
  /\ UNCHANGED query

DeleteMembers(c, f) ==
  /\ call[c].op = "delete" /\ call[c].pc = "removeAllMembers"
  /\ DeleteWrite(c, f, "removeAllMembers", "GroupMember", "deleteManyInviteCode",
                 sess[c], removeAllMembers(db, sess[c], call[c].groupId))
  /\ UNCHANGED query

DeleteInvites(c, f) ==
  /\ call[c].op = "delete" /\ call[c].pc = "deleteManyInviteCode"
  /\ DeleteWrite(c, f, "deleteManyInviteCode", "GroupInvite",
                 "removeAllApplications",
                 sess[c], deleteManyInviteCode(db, sess[c], call[c].groupId))
  /\ UNCHANGED query

DeleteApplications(c, f) ==
  /\ call[c].op = "delete" /\ call[c].pc = "removeAllApplications"
  /\ DeleteWrite(c, f, "removeAllApplications", "GroupApplication",
                 "commitTransaction",
                 sess[c], removeAllApplications(db, sess[c], call[c].groupId))
  /\ UNCHANGED query

\* where delete goes once its try or catch is left: the finally block
AfterTry(c) == IF call[c].needEndSession THEN "endSession" ELSE "done"

\* await session.commitTransaction(); return group
DeleteCommit(c, f) ==
  /\ call[c].op = "delete" /\ call[c].pc = "commitTransaction" /\ FaultOK(c, f)
  /\ f \in CommitAnswers(sess[c])
  /\ \E applied \in CommitApplied(f) :
       LET r == CommitTransaction(db, sess[c], applied)
           err == Error("commitTransaction", f)
       IN /\ db' = r.db
          /\ sess' = [sess EXCEPT ![c] = r.s]
          /\ IF f = "ok"
             THEN /\ call' = [call EXCEPT ![c].out = Return(call[c].group),
                                          ![c].pc = AfterTry(c)]
                  /\ hist' = Interfere(hist, c, r.db)
             ELSE /\ call' = [call EXCEPT ![c].err = err,
                                          ![c].pc = "abortTransaction"]
                  /\ hist' = Interfere([hist EXCEPT ![c] = Failed(@, err)],
                                       c, r.db)
  /\ faults' = Faults(f)
  /\ UNCHANGED nextId
  /\ UNCHANGED query

\* catch (err) { log; await session.abortTransaction(); throw err }
DeleteAbort(c) ==
  /\ call[c].op = "delete" /\ call[c].pc = "abortTransaction"
  /\ sess' = [sess EXCEPT ![c] = AbortTransaction(@)]
  /\ call' = [call EXCEPT
                ![c].out = IF AbortError(sess[c]) = NoErr
                           THEN Raise(call[c].err)
                           ELSE Raise(AbortError(sess[c])),
                ![c].pc = AfterTry(c)]
  /\ UNCHANGED <<db, hist, nextId, faults>>
  /\ UNCHANGED query

\* finally { if (needEndSession) await session.endSession() }
DeleteEndSession(c) ==
  /\ call[c].op = "delete" /\ call[c].pc = "endSession"
  /\ sess' = [sess EXCEPT ![c] = EndSession(@)]
  /\ call' = [call EXCEPT ![c].pc = "done"]
  /\ UNCHANGED <<db, hist, nextId, faults>>
  /\ UNCHANGED query

(* ------------------------------- update ------------------------------- *)

\* the dtos update is called with: a new name alone, or a new name with a
\* new creator and an appid
Dtos ==
  {[name |-> "renamed", createdBy |-> NotGiven, appid |-> NotGiven],
   [name |-> "renamed", createdBy |-> "u2", appid |-> "app1"]}

\* update(groupId, dto) is called
CallUpdate(c, groupId, dto) ==
  /\ NextCall(c)
  /\ call' = [call EXCEPT ![c] =
                [IdleCall EXCEPT !.op = "update", !.pc = "findOneAndUpdate",
                                 !.groupId = groupId,
                                 !.name = dto.name,
                                 !.createdBy = dto.createdBy,
                                 !.appid = dto.appid]]
  /\ hist' = [hist EXCEPT ![c] = [NoHist EXCEPT !.dbAtCall = db]]
  /\ UNCHANGED <<db, sess, nextId, faults, query>>

\* The server makes a write outside a transaction wait while an open
\* transaction holds a write of the same document.
HeldByTransaction(c, groupId) ==
  \E d \in Calls \ {c} :
    /\ InTransaction(sess[d])
    /\ RowsOf(db, "Group", groupId) \cap sess[d].del["Group"] # {}

\* await findOneAndUpdate(...); return res.value.  No try around it: an
\* error of the storage call is the error update raises.
UpdateFindOneAndUpdate(c, f) ==
  /\ call[c].op = "update" /\ call[c].pc = "findOneAndUpdate" /\ FaultOK(c, f)
  /\ ~HeldByTransaction(c, call[c].groupId)
  /\ LET r == update(db, call[c].groupId,
                     [name |-> call[c].name, createdBy |-> call[c].createdBy,
                      appid |-> call[c].appid])
         err == Error("findOneAndUpdate", f)
     IN IF f = "ok"
        THEN /\ db' = r.db
             /\ call' = [call EXCEPT ![c].out = Return(r.value), ![c].pc = "done"]
             /\ hist' = Interfere(hist, c, r.db)
        ELSE /\ db' = db
             /\ call' = [call EXCEPT ![c].out = Raise(err), ![c].pc = "done"]
             /\ hist' = [hist EXCEPT ![c] = Failed(@, err)]
  /\ faults' = Faults(f)
  /\ UNCHANGED <<sess, nextId, query>>

(* ------------------------- read query actions ------------------------- *)

QueryGroupIds == 1..MaxQueryGroups

\* who created group g, and the role a member of g has
CreatorOf(g) == IF g % 2 = 1 THEN "u1" ELSE "u2"

RoleOf(g, uid) == IF uid = CreatorOf(g) THEN Owner ELSE "developer"

\* What the store may hold for one group id: the Group's appid as stored
\* ("none": no Group document) and the appid of its GroupApplication row
\* ("none": no row).  A Group written by create carries appid null or the
\* application's id; other writers leave the field out; rows of the other
\* collections are written and removed by their own services, so they may
\* outlive the Group or be missing.
GroupShapes ==
  {<<"none", "none">>, <<"none", "app1">>,
   <<Null, Null>>, <<Missing, Null>>, <<Null, "app1">>,
   <<"app1", "app1">>, <<"app1", "none">>}

QueryDB(shape, members) ==
  [Group |->
     {GroupDoc(g, "team", CreatorOf(g), shape[g][1]) :
        g \in {x \in QueryGroupIds : shape[x][1] # "none"}},
   GroupMember |->
     UNION {{MemberRow(g, uid, RoleOf(g, uid)) : uid \in members[g]} :
              g \in QueryGroupIds},
   GroupInvite |-> {},
   GroupApplication |->
     {[groupId |-> g, appid |-> shape[g][2]] :
        g \in {x \in QueryGroupIds : shape[x][2] # "none"}}]

QueryDBs ==
  {QueryDB(shape, members) :
     shape \in [QueryGroupIds -> GroupShapes],
     members \in [QueryGroupIds -> SUBSET Uids]}

\* the read queries run on a store that create, delete and the other
\* services have left
InitQuery ==
  /\ db \in QueryDBs
  /\ sess = [c \in Calls |-> NoSession]
  /\ call = [c \in Calls |-> IdleCall]
  /\ hist = [c \in Calls |-> NoHist]
  /\ nextId = MaxQueryGroups + 1
  /\ faults = 0
  /\ query = NoQuery

\* the error the aggregation (or count) throws when the storage call fails
StorageError(f) == IF f = "ok" THEN NoErr ELSE Error("aggregate", f)

\* one read query from call to settled promise; out is what the caller
\* gets.  A behaviour follows a single query on its store.
Query(op, uid, appid, groupId, f, out) ==
  /\ query = NoQuery
  /\ query' = [op |-> op, uid |-> uid, appid |-> appid, groupId |-> groupId,
               primary |-> StorageError(f), out |-> out]
  /\ UNCHANGED <<db, sess, call, hist, nextId, faults>>

\* findAll: try { aggregate } catch { log; throw new Error(...) }
QueryFindAll(uid, f) ==
  Query("findAll", uid, "", 0, f,
        IF f = "ok" THEN Return(findAll(db, uid))
        ELSE Raise(Error("findAll", "Failed to get group members")))

\* countGroups: the count, or the error countDocuments threw
QueryCountGroups(uid, f) ==
  Query("countGroups", uid, "", 0, f,
        IF f = "ok" THEN Return(countGroups(db, uid))
        ELSE Raise(StorageError(f)))

\* findGroupsByAppidAndUid: try { aggregate } catch { throw new Error(...) }
QueryFindGroupsByAppidAndUid(appid, uid, f) ==
  Query("findGroupsByAppidAndUid", uid, appid, 0, f,
        IF f = "ok" THEN Return(findGroupsByAppidAndUid(db, appid, uid))
        ELSE Raise(Error("findGroupsByAppidAndUid", "Failed to get groups data")))

\* findOneWithRole: aggregate(...).next() with no try around it
QueryFindOneWithRole(groupId, uid, f) ==
  \E res \in findOneWithRole(db, groupId, uid) :
    Query("findOneWithRole", uid, "", groupId, f,
          IF f = "ok" THEN Return(res) ELSE Raise(StorageError(f)))

\* findGroupByAppid: the document findOne gives, or the error it threw
QueryFindGroupByAppid(appid, f) ==
  \E res \in findGroupByAppid(db, appid) :
    Query("findGroupByAppid", "", appid, 0, f,
          IF f = "ok" THEN Return(res) ELSE Raise(StorageError(f)))

(* ---------------------------- specification --------------------------- *)

\* The promise of a finished call settles: the caller has the Group or the
\* error, and the call's locals are gone.
Settle(c) ==
  /\ call[c].pc = "done"
  /\ call' = [call EXCEPT ![c] = [IdleCall EXCEPT !.op = "settled", !.pc = "settled"]]
  /\ sess' = [sess EXCEPT ![c] = NoSession]
  /\ hist' = [hist EXCEPT ![c] = NoHist]
  /\ UNCHANGED <<db, nextId, faults>>
  /\ UNCHANGED query

\* the group ids a caller can name: every id generated so far
GroupIds == 1..(nextId - 1)

\* Calls made one after the other; every storage call may fail.
Next ==
  \/ \E c \in Calls, in \in CreateInputs :
        InFlight(c) = {} /\ CallCreate(c, in[1], in[2], in[3])
  \/ \E c \in Calls, f \in Outcomes : CreateInsertOne(c, f)
  \/ \E c \in Calls, f \in Outcomes : CreateAddOne(c, f)
  \/ \E c \in Calls, f \in Outcomes : CreateAppend(c, f)
  \/ \E c \in Calls, f \in Outcomes : CreateFindOne(c, f)
  \/ \E c \in Calls, f \in CommitOutcomes, timedOut \in BOOLEAN :
        CreateCommit(c, f, timedOut)
  \/ \E c \in Calls, timedOut \in BOOLEAN : CreateAbort(c, timedOut)
  \/ \E c \in Calls : CreateEndSession(c)
  \/ \E c \in Calls, groupId \in GroupIds, mode \in SessionModes :
        InFlight(c) = {} /\ CallDelete(c, groupId, mode)
  \/ \E c \in Calls, f \in Outcomes : DeletePreRead(c, f)
  \/ \E c \in Calls, f \in Outcomes : DeleteGroupDoc(c, f)
  \/ \E c \in Calls, f \in Outcomes : DeleteMembers(c, f)
  \/ \E c \in Calls, f \in Outcomes : DeleteInvites(c, f)
  \/ \E c \in Calls, f \in Outcomes : DeleteApplications(c, f)
  \/ \E c \in Calls, f \in CommitOutcomes : DeleteCommit(c, f)
  \/ \E c \in Calls : DeleteAbort(c)
  \/ \E c \in Calls : DeleteEndSession(c)
  \/ \E c \in Calls, groupId \in GroupIds, dto \in Dtos :
        InFlight(c) = {} /\ CallUpdate(c, groupId, dto)
  \/ \E c \in Calls, f \in Outcomes : UpdateFindOneAndUpdate(c, f)
  \/ \E c \in Calls : Settle(c)

Spec == Init /\ [][Next]_vars

\* Calls running concurrently, each step of one interleaved with the steps
\* of the others; the only failures are the server's write conflicts.
NextConcurrent ==
  \/ \E c \in Calls, in \in CreateInputs : CallCreate(c, in[1], in[2], in[3])
  \/ \E c \in Calls : CreateInsertOne(c, "ok")
  \/ \E c \in Calls : CreateAddOne(c, "ok")
  \/ \E c \in Calls : CreateAppend(c, "ok")
  \/ \E c \in Calls : CreateFindOne(c, "ok")
  \/ \E c \in Calls : CreateCommit(c, "ok", FALSE)
  \/ \E c \in Calls : CreateEndSession(c)
  \/ \E c \in Calls, groupId \in GroupIds, mode \in SessionModes :
        CallDelete(c, groupId, mode)
  \/ \E c \in Calls : DeletePreRead(c, "ok")
  \/ \E c \in Calls : DeleteGroupDoc(c, "ok")
  \/ \E c \in Calls : DeleteMembers(c, "ok")
  \/ \E c \in Calls : DeleteInvites(c, "ok")
  \/ \E c \in Calls : DeleteApplications(c, "ok")
  \/ \E c \in Calls : DeleteCommit(c, "ok")
  \/ \E c \in Calls : DeleteAbort(c)
  \/ \E c \in Calls : DeleteEndSession(c)
  \/ \E c \in Calls, groupId \in GroupIds, dto \in Dtos :
        CallUpdate(c, groupId, dto)
  \/ \E c \in Calls : UpdateFindOneAndUpdate(c, "ok")
  \/ \E c \in Calls : Settle(c)

SpecConcurrent == Init /\ [][NextConcurrent]_vars

\* A read query on a store that does not change while it runs; the query
\* may fail in the storage call.
NextQuery ==
  \/ \E uid \in Uids, f \in Outcomes : QueryFindAll(uid, f)
  \/ \E uid \in Uids, f \in Outcomes : QueryCountGroups(uid, f)
  \/ \E appid \in Appids, uid \in Uids, f \in Outcomes :
        QueryFindGroupsByAppidAndUid(appid, uid, f)
  \/ \E groupId \in QueryGroupIds, uid \in Uids, f \in Outcomes :
        QueryFindOneWithRole(groupId, uid, f)
  \/ \E appid \in Appids, f \in Outcomes : QueryFindGroupByAppid(appid, f)

SpecQuery == InitQuery /\ [][NextQuery]_vars

(* ------------------------------- claims ------------------------------- *)

Finished(c, op) == call[c].op = op /\ call[c].pc = "done"

Returned(c, op) == Finished(c, op) /\ call[c].out.kind = "return"

Raised(c, op) == Finished(c, op) /\ call[c].out.kind = "raise"

\* the ids a create call has tried: those of abandoned attempts and the
\* current one
TriedIds(c) == hist[c].failedIds \cup {hist[c].curId}

\* C1 as stated: whenever a step of create has failed, the finished call has
\* raised an error and no row exists for any id the call tried.
C1_FailureRaisesAndLeavesNothing ==
  \A c \in Calls :
    (Finished(c, "create") /\ hist[c].primary # NoErr)
      => /\ call[c].out.kind = "raise"
         /\ \A id \in TriedIds(c) : NoRows(db, id)

\* the rows create makes for id are all committed
CreatedComplete(D, c, id) ==
  /\ RowsOf(D, "Group", id)
       = {GroupDoc(id, call[c].name, call[c].createdBy, call[c].appid)}
  /\ RowsOf(D, "GroupMember", id) = {MemberRow(id, call[c].createdBy, Owner)}
  /\ RowsOf(D, "GroupApplication", id) = {ApplicationRow(id, call[c].appid)}

\* C1 amended: no row exists for the id of an attempt of create that was
\* abandoned for a retry; a create that raised raises an error and has left
\* no row for any id it tried, except that when the error it raises is a
\* commit error labelled UnknownTransactionCommitResult the rows of the
\* last attempt's id are either all committed or all absent; a create in
\* which a step failed returns a Group only when every failure carried the
\* TransientTransactionError or UnknownTransactionCommitResult label and
\* withTransaction's retry committed.
C1_FailedAttemptLeavesNothing ==
  \A c \in Calls :
    /\ call[c].op = "create"
         => \A id \in hist[c].failedIds \ {hist[c].curId} : NoRows(db, id)
    /\ Raised(c, "create")
         => /\ call[c].out.err # NoErr
            /\ call[c].out.err.label # "Unknown"
                 => \A id \in TriedIds(c) : NoRows(db, id)
            /\ call[c].out.err.label = "Unknown"
                 => /\ call[c].out.err.at = "commitTransaction"
                    /\ \/ NoRows(db, hist[c].curId)
                       \/ CreatedComplete(db, c, hist[c].curId)
    /\ (Returned(c, "create") /\ hist[c].primary # NoErr)
         => /\ hist[c].fatals = 0
            /\ call[c].attempt > 1

\* C1 witness: a create has raised after its insert, addOne and append ran.
C1_Witness ==
  \E c \in Calls :
    /\ Raised(c, "create")
    /\ hist[c].runs["append"] >= 1
    /\ hist[c].primary.label = "Fatal"

\* C2: a create that returned has left exactly one Group with the new id,
\* exactly one GroupMember row for it (the creator as Owner) and exactly one
\* GroupApplication row for it, also without an appid; it returns that Group.
C2_CreateSuccessComplete ==
  \A c \in Calls :
    Returned(c, "create") =>
      LET id == call[c].insertedId IN
      /\ RowsOf(db, "Group", id)
           = {GroupDoc(id, call[c].name, call[c].createdBy, call[c].appid)}
      /\ call[c].out.val = RowsOf(db, "Group", id)
      /\ RowsOf(db, "GroupMember", id) = {MemberRow(id, call[c].createdBy, Owner)}
      /\ RowsOf(db, "GroupApplication", id) = {ApplicationRow(id, call[c].appid)}
      /\ RowsOf(db, "GroupInvite", id) = {}

\* C2 witness: a create without appid has returned.
C2_Witness ==
  \E c \in Calls :
    /\ Returned(c, "create")
    /\ call[c].appid = Undefined
    /\ Cardinality(call[c].out.val) = 1

\* C3: a delete that returned has left no row keyed to the group id in any
\* of the four collections, and it returns the Group as it was before.
C3_DeleteSuccessComplete ==
  \A c \in Calls :
    (Returned(c, "delete") /\ ~hist[c].interf) =>
      /\ NoRows(db, call[c].groupId)
      /\ call[c].out.val = RowsOf(hist[c].dbAtCall, "Group", call[c].groupId)

\* C3 witness: a delete of a group with two members, an invite code and an
\* application record has returned that group.
C3_Witness ==
  \E c \in Calls :
    /\ Returned(c, "delete")
    /\ Cardinality(RowsOf(hist[c].dbAtCall, "GroupMember", call[c].groupId)) = 2
    /\ RowsOf(hist[c].dbAtCall, "GroupInvite", call[c].groupId) # {}
    /\ RowsOf(hist[c].dbAtCall, "GroupApplication", call[c].groupId) # {}
    /\ call[c].out.val # {}

\* C4 as stated: a delete in which a step after the pre-read failed (a
\* deletion or the commit) has raised an error, the transaction on its
\* session is aborted, and the committed rows are those that existed before
\* the call.
C4_DeleteFailureRollsBack ==
  \A c \in Calls :
    (Finished(c, "delete") /\ hist[c].primary # NoErr
       /\ hist[c].primary.at # "findOne" /\ ~hist[c].interf) =>
      /\ call[c].out.kind = "raise"
      /\ sess[c].state = TRANSACTION_ABORTED
      /\ db = hist[c].dbAtCall

\* C5: in every committed state that concurrent creates and deletes reach, a
\* Group exists only together with its Owner membership and its application
\* record, and no GroupMember, GroupInvite or GroupApplication row exists
\* for an id whose Group does not.
C5_CommittedStoreConsistent ==
  \A id \in 1..nextId :
    IF RowsOf(db, "Group", id) # {}
    THEN /\ \E m \in RowsOf(db, "GroupMember", id) : m.role = Owner
         /\ RowsOf(db, "GroupApplication", id) # {}
    ELSE NoRows(db, id)

\* C5 witness: a create and a delete are both in the middle of their
\* transactions, the create holding an uncommitted Group and the delete
\* having deleted a Group whose members it has not yet removed.
C5_Witness ==
  \E c, d \in Calls :
    /\ call[c].op = "create" /\ call[c].pc = "addOne"
    /\ sess[c].ins["Group"] # {}
    /\ call[d].op = "delete" /\ call[d].pc = "removeAllMembers"
    /\ sess[d].del["Group"] # {}
    /\ RowsOf(db, "GroupMember", call[d].groupId) # {}

\* C6 as stated: a finished create or delete that started its session itself
\* has ended it.
C6_OwnedSessionEnded ==
  \A c \in Calls :
    (call[c].op \in {"create", "delete"} /\ call[c].pc = "done"
       /\ ~call[c].borrowed) => sess[c].ended

\* C7 as stated: delete on a caller's session with a transaction in progress
\* works inside that transaction: the transaction stays in progress with the
\* caller's write, and a delete that met no storage failure has returned
\* with the group's rows deleted in it.
C7_CallerTransactionReused ==
  \A c \in Calls :
    (call[c].op = "delete" /\ hist[c].callerTxn) =>
      /\ sess[c].state = TRANSACTION_IN_PROGRESS
      /\ InviteRow(call[c].groupId, 0) \in sess[c].ins["GroupInvite"]
      /\ (call[c].pc = "done" /\ faults = 0)
           => /\ call[c].out.kind = "return"
              /\ \A k \in Colls \ {"GroupInvite"} :
                   RowsOf(View(sess[c], db), k, call[c].groupId) = {}

\* C8 as stated: the error a finished create or delete raises is the error
\* its failing step threw.
C8_PrimaryErrorPreserved ==
  \A c \in Calls :
    (call[c].pc = "done" /\ call[c].out.kind = "raise")
      => call[c].out.err = hist[c].primary

\* C9: delete never ends a session it was given.
C9_BorrowedSessionNeverEnded ==
  \A c \in Calls :
    (call[c].op = "delete" /\ call[c].borrowed) => ~sess[c].ended

\* C9 witness: a delete on a caller's session has raised after its commit
\* failed and its abort was rejected.
C9_Witness ==
  \E c \in Calls :
    /\ Raised(c, "delete")
    /\ call[c].borrowed
    /\ hist[c].primary.at = "commitTransaction"
    /\ call[c].out.err.at = "abortTransaction"

\* C10 as stated: no call executes a write step more than once.
C10_NoWriteStepTwice ==
  \A c \in Calls : \A w \in WriteSteps : hist[c].runs[w] <= 1

\* C10 amended: delete executes each write step at most once; create
\* executes each write step once more only after an error labelled
\* TransientTransactionError, so at most once plus the number of such errors.
C10_RetryOnlyAfterTransient ==
  \A c \in Calls : \A w \in WriteSteps :
    /\ call[c].op = "delete" => hist[c].runs[w] <= 1
    /\ call[c].op = "create" => hist[c].runs[w] <= 1 + hist[c].transients
    /\ (Finished(c, call[c].op) /\ hist[c].fatals > 0) => call[c].out.kind = "raise"

\* C10 witness: a create has executed its insert twice.
C10_Witness ==
  \E c \in Calls :
    /\ call[c].op = "create"
    /\ hist[c].runs["insertOne"] = 2
    /\ hist[c].transients = 1

\* C11: a delete of a group id for which no Group exists (deleted before, or
\* never created), in which no step fails, returns absent and leaves the
\* four collections as they were; so a second delete of an id changes
\* nothing after the first.
C11_RedeleteIsNoop ==
  \A c \in Calls :
    (Finished(c, "delete") /\ hist[c].primary = NoErr
       /\ RowsOf(hist[c].dbAtCall, "Group", call[c].groupId) = {}) =>
      /\ call[c].out = Return({})
      /\ db = hist[c].dbAtCall

\* C11 witness: a delete of the initial group, which an earlier delete has
\* removed, has returned absent.
C11_Witness ==
  \E c \in Calls :
    /\ Returned(c, "delete")
    /\ call[c].groupId = 1
    /\ hist[c].runs["removeAllApplications"] = 1
    /\ NoRows(hist[c].dbAtCall, 1)
    /\ call[c].out.val = {}

\* the two deletes c and d of one group that existed when each was called,
\* neither inside a caller's transaction
SameGroupDeletes(c, d) ==
  /\ c # d
  /\ call[c].op = "delete" /\ call[d].op = "delete"
  /\ call[c].groupId = call[d].groupId
  /\ ~hist[c].callerTxn /\ ~hist[d].callerTxn
  /\ RowsOf(hist[c].dbAtCall, "Group", call[c].groupId) # {}
  /\ RowsOf(hist[d].dbAtCall, "Group", call[d].groupId) # {}

\* C12: of two concurrent deletes of one group, each finished call has
\* either committed and returned or met a write conflict, raised it and left
\* no transaction in progress; the rows keyed to the id are at every moment
\* all present (the Group, whatever an update has made of it, with the
\* other rows as before) or all gone, and once both have finished and one
\* has returned none of them remains.
C12_ConcurrentDeletesSerialise ==
  \A c, d \in Calls :
    SameGroupDeletes(c, d) =>
      LET id == call[c].groupId IN
      /\ \/ NoRows(db, id)
         \/ /\ RowsOf(db, "Group", id) # {}
            /\ \A k \in Colls \ {"Group"} :
                 RowsOf(db, k, id) = RowsOf(hist[c].dbAtCall, k, id)
      /\ Raised(c, "delete")
           => /\ call[c].out.err.label = "Transient"
              /\ ~InTransaction(sess[c])
      /\ (Finished(c, "delete") /\ Finished(d, "delete")
            /\ (Returned(c, "delete") \/ Returned(d, "delete")))
           => NoRows(db, id)

\* C12 witness: one of two concurrent deletes of the initial group has
\* returned and the other has raised the write conflict it met.
C12_Witness ==
  \E c, d \in Calls :
    /\ SameGroupDeletes(c, d)
    /\ Returned(c, "delete")
    /\ Raised(d, "delete")
    /\ call[d].out.err = Error("deleteOne", "Transient")
    /\ NoRows(db, call[c].groupId)

\* a read query has given its caller a result
QueryReturned(op) == query.op = op /\ query.out.kind = "return"

\* uid has a GroupMember row in group g of store D
IsMember(D, g, uid) == \E m \in D["GroupMember"] : m.groupId = g /\ m.uid = uid

\* the Group documents of D with id g that carry no application id
PlainGroups(D, g) == {d \in D["Group"] : d._id = g /\ d.appid \in {Null, Missing}}

\* C13: findAll(uid) returns a row for a group exactly when uid has a
\* GroupMember row in it, its Group document exists and the Group is plain
\* (appid absent or null); a membership in an application-scoped group or
\* in a group that does not exist gives no row.
C13_FindAllListsPlainMemberships ==
  QueryReturned("findAll") =>
    /\ \A r \in query.out.val : r._id \in QueryGroupIds
    /\ \A g \in QueryGroupIds :
         (\E r \in query.out.val : r._id = g)
           <=> (IsMember(db, g, query.uid) /\ PlainGroups(db, g) # {})

\* C13 witness: uid is a member of an application-scoped group and of a
\* plain group, and findAll has returned the plain one alone.
C13_Witness ==
  /\ QueryReturned("findAll")
  /\ IsMember(db, 1, query.uid) /\ IsMember(db, 2, query.uid)
  /\ \E d \in db["Group"] : d._id = 1 /\ d.appid = "app1"
  /\ PlainGroups(db, 2) # {}
  /\ {r._id : r \in query.out.val} = {2}

\* the GroupApplication rows with the appid whose Group exists and in which
\* uid is a member
AppRowsOf(D, appid, uid) ==
  {a \in D["GroupApplication"] :
     /\ a.appid = appid
     /\ LookupGroup(D, a.groupId) # {}
     /\ IsMember(D, a.groupId, uid)}

\* C14: findGroupsByAppidAndUid(appid, uid) returns one row for each
\* GroupApplication row with that appid whose Group exists and in which uid
\* is a member, and no other row; each row carries the Group's id and name
\* and the role of uid's own GroupMember row.
C14_AppGroupsCarryOwnRole ==
  QueryReturned("findGroupsByAppidAndUid") =>
    LET rows == AppRowsOf(db, query.appid, query.uid) IN
    /\ Cardinality(query.out.val) = Cardinality(rows)
    /\ \A a \in rows : \E r \in query.out.val : r._id = a.groupId
    /\ \A r \in query.out.val :
         /\ \E a \in rows : a.groupId = r._id
         /\ \E d \in db["Group"] : d._id = r._id /\ d.name = r.name
         /\ MemberRow(r._id, query.uid, r.role) \in db["GroupMember"]

\* C14 witness: the query has returned a group in which another user is a
\* member with another role, while a second group recorded for the appid
\* has that other user alone as a member.
C14_Witness ==
  /\ QueryReturned("findGroupsByAppidAndUid")
  /\ \E r \in query.out.val :
       \E m \in db["GroupMember"] :
         m.groupId = r._id /\ m.uid # query.uid /\ m.role # r.role
  /\ \E a \in db["GroupApplication"] :
       /\ a.appid = query.appid
       /\ LookupGroup(db, a.groupId) # {}
       /\ ~IsMember(db, a.groupId, query.uid)
       /\ RowsOf(db, "GroupMember", a.groupId) # {}

\* C15: findOneWithRole(groupId, uid) returns the group with uid's role when
\* uid's GroupMember row and the Group both exist, and otherwise returns
\* absent; a query whose storage call succeeds never raises.
C15_OneWithRoleNeedsBoth ==
  query.op = "findOneWithRole" =>
    /\ query.primary = NoErr => query.out.kind = "return"
    /\ query.out.kind = "return" =>
         IF IsMember(db, query.groupId, query.uid)
            /\ LookupGroup(db, query.groupId) # {}
         THEN \E r \in query.out.val :
                /\ query.out.val = {r}
                /\ r._id = query.groupId
                /\ MemberRow(r._id, query.uid, r.role) \in db["GroupMember"]
                /\ \E d \in db["Group"] : d._id = r._id /\ d.name = r.name
         ELSE query.out.val = {}

\* C15 witness: uid still has a membership in a group whose Group document
\* is gone and is a member of another, existing group; the query for the
\* first has returned absent.
C15_Witness ==
  /\ QueryReturned("findOneWithRole")
  /\ IsMember(db, query.groupId, query.uid)
  /\ LookupGroup(db, query.groupId) = {}
  /\ \E g \in QueryGroupIds : IsMember(db, g, query.uid) /\ LookupGroup(db, g) # {}
  /\ query.out.val = {}

\* C16 as stated: when the aggregation of findAll, findGroupsByAppidAndUid
\* or findOneWithRole fails, the caller gets a generic error of the query
\* and never the error the storage engine threw.
C16_AggregationFailureFlattened ==
  (query.op \in {"findAll", "findGroupsByAppidAndUid", "findOneWithRole"}
     /\ query.primary # NoErr) =>
    /\ query.out.kind = "raise"
    /\ query.out.err # query.primary
    /\ query.out.err.at = query.op

\* C17 as stated: countGroups(uid) is the number of Groups created by uid
\* that have no application id; a Group with an appid is not counted.
C17_CountsCreatorsPlainGroups ==
  QueryReturned("countGroups") =>
    query.out.val =
      Cardinality({d \in db["Group"] :
                     d.createdBy = query.uid /\ d.appid \in {Null, Missing}})

\* C18: the members of every row findAll returns are the { role, uid } pairs
\* of all GroupMember rows of that row's group, whoever asks, and of no row
\* of another group.
C18_MembersAreTheGroupsMembers ==
  QueryReturned("findAll") =>
    \A r \in query.out.val :
      r.members = {[role |-> m.role, uid |-> m.uid] :
                     m \in RowsOf(db, "GroupMember", r._id)}

\* C18 witness: findAll has returned a group with two members while the
\* caller is also a member, with another role, of another group.
C18_Witness ==
  /\ QueryReturned("findAll")
  /\ \E r \in query.out.val :
       /\ Cardinality(r.members) = 2
       /\ \E m \in db["GroupMember"] :
            /\ m.groupId # r._id /\ m.uid = query.uid
            /\ [role |-> m.role, uid |-> m.uid] \notin r.members

\* C19 as stated: a group that create(name, uid) made without an appid and
\* that still exists is listed by findAll(uid), and countGroups(uid) counts
\* every such group.
C19_CreatedPlainGroupCountedAndListed ==
  \A c \in Calls :
    (Returned(c, "create") /\ call[c].appid = Undefined
       /\ RowsOf(db, "Group", call[c].insertedId) # {}) =>
      LET uid == call[c].createdBy IN
      /\ \E r \in findAll(db, uid) : r._id = call[c].insertedId
      /\ countGroups(db, uid)
           = Cardinality({d \in db["Group"] :
                            d.createdBy = uid /\ d.appid \in {Null, Missing}})

\* C20 as stated: delete returns a Group only when its own committed
\* transaction removed that Group, so two deletes of one group never both
\* return it.
C20_ReturnedGroupWasRemovedByCall ==
  \A c, d \in Calls :
    (c # d /\ Returned(c, "delete") /\ Returned(d, "delete")
       /\ call[c].groupId = call[d].groupId)
      => (call[c].out.val = {} \/ call[d].out.val = {})

====
